---- MODULE Spec2Model ----
(***************************************************************************)
(* Model of the user/auth service of dkd99/flask-project:                  *)
(*   src/app.py             JWT callbacks, revocation wiring, bootstrap    *)
(*   src/resources/user.py  the routes /register /login /logout /refresh   *)
(*                          /user/<id>                                     *)
(* The Flask development server (app.run, src/app.py:113) serves requests  *)
(* on threads of one process, so handlers interleave between their         *)
(* accesses to the two shared resources: the users table and BLOCKLIST.    *)
(* Every handler is cut exactly at those accesses.                         *)
(*                                                                         *)
(* blocklist.py, models.py, schemas.py and db.py are imported by the       *)
(* sources but are not among them; the set BLOCKLIST and the users table   *)
(* (serial id, unique username) follow the specification's data model.     *)
(* jwt_required, create_access_token and create_refresh_token are          *)
(* flask_jwt_extended 4.x; pbkdf2_sha256 is passlib.                       *)
(***************************************************************************)
EXTENDS Integers, FiniteSets, Sequences, TLC

\* ------------------------------------------------------------------ bounds
\* requests the clients send in one run
MaxRequests == 5
\* tokens whose exp claim passes in one run
MaxExpired == 1

\* The server starts one thread per request (ThreadingMixIn); the model has two
\* slots for requests in flight, numbered only to tell them apart.
Workers == {1, 2}
\* the usernames clients register, and the ones they try to log in with
Usernames == {"alice"}
LoginNames == {"alice", "bob"}
Passwords == {"pw1", "pw2"}
Salts == {"s1"}

VARIABLES
    users,      \* rows of table users: [id, username, password]
    nextId,     \* next value of the id sequence of table users
    BLOCKLIST,  \* blocklist.BLOCKLIST: the set of revoked jti
    issued,     \* every token handed out so far (what a client can present)
    nextJti,    \* next fresh token identifier
    expired,    \* jti of the tokens whose exp claim has passed
    sent,       \* requests received so far
    audit,      \* history: every 200 and 201 that changed state (see Entry)
    pc,         \* per thread: where its handler stands
    loc,        \* per thread: the request in flight and the handler's local `user`
    last        \* the request answered most recently and its response

vars == <<users, nextId, BLOCKLIST, issued, nextJti, expired, sent, audit, pc, loc, last>>

\* ------------------------------------------------------------------ values
NoToken == [jti |-> 0, type |-> "none", sub |-> 0, fresh |-> FALSE]
NoUser == [id |-> 0, username |-> "", password |-> <<>>]
NoDump == [id |-> 0, username |-> ""]

\* the Authorization header of a request
NoHeader == [kind |-> "missing", tok |-> NoToken]
Malformed == [kind |-> "malformed", tok |-> NoToken]
Bearer(t) == [kind |-> "bearer", tok |-> t]
Auths == {NoHeader, Malformed} \cup {Bearer(t) : t \in issued}

\* what held when a request arrived (history, read by the properties only)
NoSeen == [revoked |-> FALSE, loggedOut |-> FALSE, expired |-> FALSE,
           held |-> FALSE, overlap |-> FALSE, sibling |-> FALSE]

Request(route, auth, username, password, user_id, seen) ==
    [route |-> route, auth |-> auth, username |-> username,
     password |-> password, user_id |-> user_id, seen |-> seen]

NoRequest == Request("none", NoHeader, "", "", 0, NoSeen)

Response(status, error, text) ==
    [status |-> status, error |-> error, text |-> text,
     access_token |-> NoToken, refresh_token |-> NoToken, user |-> NoDump]

NoResponse == Response(0, "", "")

\* an entry of the history: /logout and /refresh with the jti they revoked (and
\* the jti /refresh issued), /register and DELETE /user with the row written
Entry(route, jti, new, user) == [route |-> route, jti |-> jti, new |-> new, user |-> user]

\* ------------------------------------------------------------------ app.py
\* faulty variant: the loader looks for any revoked token of the same identity
check_if_token_in_blocklist_by_user(jwt_payload) ==
    \E t \in issued : t.sub = jwt_payload.sub /\ t.jti \in BLOCKLIST

\* faulty variant: the loader never finds a jti
check_if_token_in_blocklist_never(jwt_payload) == FALSE

\* @jwt.token_in_blocklist_loader
check_if_token_in_blocklist(jwt_payload) == jwt_payload.jti \in BLOCKLIST

expired_token_callback == Response(401, "token_expired", "The token has expired.")

invalid_token_callback == Response(401, "invalid_token", "Signature verification failed.")

missing_token_callback ==
    Response(401, "authorization_required", "Request does not contain an access token.")

token_not_fresh_callback ==
    Response(401, "fresh_token_required", "The token is not fresh.")

revoked_token_callback == Response(401, "token_revoked", "The token has been revoked.")

\* ------------------------------------------------- flask_jwt_extended, passlib
\* create_access_token(identity=..., fresh=...): a signed token with a new jti
create_access_token(identity, fresh, jti) ==
    [jti |-> jti, type |-> "access", sub |-> identity, fresh |-> fresh]

\* create_refresh_token(identity): refresh tokens are never fresh
create_refresh_token(identity, jti) ==
    [jti |-> jti, type |-> "refresh", sub |-> identity, fresh |-> FALSE]

\* verify_token_type: jwt_required() takes access tokens, jwt_required(refresh=True)
\* takes refresh tokens
verify_token_type(tok, refresh) ==
    IF refresh THEN tok.type = "refresh" ELSE tok.type # "refresh"

\* faulty variant: a token is refused when no row has the id of its identity
jwt_required_lookup(auth, refresh) ==
    IF auth.kind = "missing" THEN missing_token_callback
    ELSE IF auth.kind = "malformed" THEN invalid_token_callback
    ELSE IF auth.tok.jti \in expired THEN expired_token_callback
    ELSE IF ~verify_token_type(auth.tok, refresh) THEN invalid_token_callback
    ELSE IF check_if_token_in_blocklist(auth.tok) THEN revoked_token_callback
    ELSE IF \A u \in users : u.id # auth.tok.sub THEN invalid_token_callback
    ELSE NoResponse

\* faulty variant: the exp claim is not verified
jwt_required_no_exp(auth, refresh) ==
    IF auth.kind = "missing" THEN missing_token_callback
    ELSE IF auth.kind = "malformed" THEN invalid_token_callback
    ELSE IF ~verify_token_type(auth.tok, refresh) THEN invalid_token_callback
    ELSE IF check_if_token_in_blocklist(auth.tok) THEN revoked_token_callback
    ELSE NoResponse

\* The decorator @jwt_required(refresh=...) in front of a handler.  NoResponse
\* means the request passes and the handler body runs; otherwise the response of
\* the callback that app.py registers for the failure.  The order is the
\* library's: header, decoding (signature, then exp), token type, blocklist.
jwt_required(auth, refresh) ==
    IF auth.kind = "missing" THEN missing_token_callback
    ELSE IF auth.kind = "malformed" THEN invalid_token_callback
    ELSE IF auth.tok.jti \in expired THEN expired_token_callback
    ELSE IF ~verify_token_type(auth.tok, refresh) THEN invalid_token_callback
    ELSE IF check_if_token_in_blocklist(auth.tok) THEN revoked_token_callback
    ELSE NoResponse

\* pbkdf2_sha256.hash(password): scheme, a random salt, and the digest of salt
\* and password (a one-way value, kept symbolic)
pbkdf2_sha256_hash(password, salt) == <<"$pbkdf2-sha256", salt, <<"digest", salt, password>>>>

\* faulty variant: every password verifies against a well-formed hash
pbkdf2_sha256_verify_any(password, hash) == Len(hash) = 3

\* pbkdf2_sha256.verify(password, hash): recompute with the stored salt, compare
pbkdf2_sha256_verify(password, hash) ==
    /\ Len(hash) = 3
    /\ hash = pbkdf2_sha256_hash(password, hash[2])

\* faulty variant: adding a jti that is present takes it out
BLOCKLIST_add_toggle(S, jti) == IF jti \in S THEN S \ {jti} ELSE S \cup {jti}

\* BLOCKLIST.add(jti)
BLOCKLIST_add(S, jti) == S \cup {jti}

\* ------------------------------------------------------------ users table
\* UserModel.query.filter(UserModel.username == username).first()
first_by_username(username) ==
    IF \E u \in users : u.username = username
    THEN CHOOSE u \in users : u.username = username
    ELSE NoUser

\* UserModel.query.get(user_id), the lookup inside get_or_404
get_by_id(user_id) ==
    IF \E u \in users : u.id = user_id
    THEN CHOOSE u \in users : u.id = user_id
    ELSE NoUser

\* UserSchema dump: id and username, password is load_only
UserSchema_dump(u) == [id |-> u.id, username |-> u.username]

\* the path ids a client may ask for: every id handed out, and the next one
UserIds == 1..nextId

\* the jti whose /logout has returned 200
LoggedOut == {g.jti : g \in {h \in audit : h.route = "logout"}}

\* the state a request with this header and username arrives in
Seen(auth, username) ==
    [revoked |-> auth.kind = "bearer" /\ auth.tok.jti \in BLOCKLIST,
     loggedOut |-> auth.kind = "bearer" /\ auth.tok.jti \in LoggedOut,
     expired |-> auth.kind = "bearer" /\ auth.tok.jti \in expired,
     held |-> \E u \in users : u.username = username,
     overlap |-> /\ auth.kind = "bearer"
                 /\ \E v \in Workers : /\ pc[v] = "logout_body"
                                       /\ loc[v].request.auth.tok.jti # auth.tok.jti,
     sibling |-> /\ auth.kind = "bearer"
                 /\ \E t \in issued : /\ t.sub = auth.tok.sub
                                      /\ t.jti # auth.tok.jti
                                      /\ t.jti \in BLOCKLIST]

\* a thread's frame: the request it serves and the handler's local `user`
Frame(request, user) == [request |-> request, user |-> user]

NoFrame == Frame(NoRequest, NoUser)

\* the next request is taken into the first free slot
Accept(w) ==
    /\ pc[w] = "idle"
    /\ \A v \in Workers : v < w => pc[v] # "idle"
    /\ sent < MaxRequests
    /\ sent' = sent + 1
    /\ audit' = audit

\* the handler returns (or aborts): the response goes out, the thread is free
Finish(w, request, r) ==
    /\ last' = [request |-> request, response |-> r]
    /\ pc' = [pc EXCEPT ![w] = "idle"]
    /\ loc' = [loc EXCEPT ![w] = NoFrame]

\* the handler goes on to its next access of shared state
Goto(w, label, request, user) ==
    /\ pc' = [pc EXCEPT ![w] = label]
    /\ loc' = [loc EXCEPT ![w] = Frame(request, user)]
    /\ last' = last

\* ------------------------------------------------------------------ Init
Init ==
    /\ users = {}
    /\ nextId = 1
    /\ BLOCKLIST = {}
    /\ issued = {}
    /\ nextJti = 1
    /\ expired = {}
    /\ sent = 0
    /\ audit = {}
    /\ pc = [w \in Workers |-> "idle"]
    /\ loc = [w \in Workers |-> NoFrame]
    /\ last = [request |-> NoRequest, response |-> NoResponse]

\* --------------------------------------------------- POST /register
\* user.py:51-57: the username pre-check, then the new row is built
UserRegister_post_check(w, username, password, salt) ==
    LET request == Request("register", NoHeader, username, password, 0, Seen(NoHeader, username))
        found == first_by_username(username) # NoUser IN
    /\ Accept(w)
    /\ IF found
       THEN Finish(w, request, Response(409, "", "A user with that username already exists."))
       ELSE Goto(w, "register_commit", request,
                 [id |-> 0, username |-> username,
                  password |-> pbkdf2_sha256_hash(password, salt)])
    /\ UNCHANGED <<users, nextId, BLOCKLIST, issued, nextJti, expired>>

\* what db.session.commit() meets for the INSERT of row: the unique constraint
\* on username is checked by the database at write time
commit_conflicts(row) == \E u \in users : u.username = row.username

\* faulty variant: the id is the largest id in the table plus one, so the id of
\* a deleted last row is given out again
UserRegister_post_commit_reuse(w) ==
    LET id == 1 + Cardinality({i \in 1..nextId : \E u \in users : u.id >= i}) IN
    /\ pc[w] = "register_commit"
    /\ nextId' = nextId + 1
    /\ IF commit_conflicts(loc[w].user)
       THEN /\ users' = users
            /\ audit' = audit
            /\ Finish(w, loc[w].request, Response(500, "", "Internal Server Error"))
       ELSE /\ users' = users \cup {[loc[w].user EXCEPT !.id = id]}
            /\ audit' = audit \cup {Entry("register", 0, 0, [loc[w].user EXCEPT !.id = id])}
            /\ Finish(w, loc[w].request, Response(201, "", "User created successfully."))
    /\ UNCHANGED <<BLOCKLIST, issued, nextJti, expired, sent>>

\* user.py:58-61: db.session.add(user); db.session.commit().  The handler has no
\* try/except: an IntegrityError leaves the handler and Flask answers 500; the
\* transaction is rolled back, the sequence value it drew stays drawn.
UserRegister_post_commit(w) ==
    /\ pc[w] = "register_commit"
    /\ nextId' = nextId + 1
    /\ IF commit_conflicts(loc[w].user)
       THEN /\ users' = users
            /\ audit' = audit
            /\ Finish(w, loc[w].request, Response(500, "", "Internal Server Error"))
       ELSE /\ users' = users \cup {[loc[w].user EXCEPT !.id = nextId]}
            /\ audit' = audit \cup {Entry("register", 0, 0, [loc[w].user EXCEPT !.id = nextId])}
            /\ Finish(w, loc[w].request, Response(201, "", "User created successfully."))
    /\ UNCHANGED <<BLOCKLIST, issued, nextJti, expired, sent>>

\* --------------------------------------------------- POST /login
\* faulty variant: an absent user and a wrong password are answered differently
login_response_enumerating(user, password, jti) ==
    IF user = NoUser THEN Response(404, "", "User not found.")
    ELSE IF pbkdf2_sha256_verify(password, user.password)
    THEN [Response(200, "", "") EXCEPT
            !.access_token = create_access_token(user.id, TRUE, jti),
            !.refresh_token = create_refresh_token(user.id, jti + 1)]
    ELSE Response(401, "", "Invalid credentials.")

\* faulty variant: the access token of a login is not marked fresh
login_response_stale(user, password, jti) ==
    IF user # NoUser /\ pbkdf2_sha256_verify(password, user.password)
    THEN [Response(200, "", "") EXCEPT
            !.access_token = create_access_token(user.id, FALSE, jti),
            !.refresh_token = create_refresh_token(user.id, jti + 1)]
    ELSE Response(401, "", "Invalid credentials.")

\* user.py:106-111
login_response(user, password, jti) ==
    IF user # NoUser /\ pbkdf2_sha256_verify(password, user.password)
    THEN [Response(200, "", "") EXCEPT
            !.access_token = create_access_token(user.id, TRUE, jti),
            !.refresh_token = create_refresh_token(user.id, jti + 1)]
    ELSE Response(401, "", "Invalid credentials.")

\* user.py:102-111
UserLogin_post(w, username, password) ==
    LET user == first_by_username(username)
        r == login_response(user, password, nextJti) IN
    /\ Accept(w)
    /\ IF r.status = 200
       THEN /\ issued' = issued \cup {r.access_token, r.refresh_token}
            /\ nextJti' = nextJti + 2
       ELSE UNCHANGED <<issued, nextJti>>
    /\ Finish(w, Request("login", NoHeader, username, password, 0, Seen(NoHeader, username)), r)
    /\ UNCHANGED <<users, nextId, BLOCKLIST, expired>>

\* --------------------------------------------------- POST /logout
\* user.py:116: @jwt_required()
UserLogout_post_verify(w, auth) ==
    LET request == Request("logout", auth, "", "", 0, Seen(auth, ""))
        r == jwt_required(auth, FALSE) IN
    /\ Accept(w)
    /\ IF r = NoResponse
       THEN Goto(w, "logout_body", request, NoUser)
       ELSE Finish(w, request, r)
    /\ UNCHANGED <<users, nextId, BLOCKLIST, issued, nextJti, expired>>

\* faulty variant: the handler answers 200 without adding the jti
UserLogout_post_forget(w) ==
    /\ pc[w] = "logout_body"
    /\ BLOCKLIST' = BLOCKLIST
    /\ audit' = audit \cup {Entry("logout", loc[w].request.auth.tok.jti, 0, NoUser)}
    /\ Finish(w, loc[w].request, Response(200, "", "Successfully logged out"))
    /\ UNCHANGED <<users, nextId, issued, nextJti, expired, sent>>

\* faulty variant: the handler rebinds the set instead of adding to it
UserLogout_post_overwrite(w) ==
    /\ pc[w] = "logout_body"
    /\ BLOCKLIST' = {loc[w].request.auth.tok.jti}
    /\ audit' = audit \cup {Entry("logout", loc[w].request.auth.tok.jti, 0, NoUser)}
    /\ Finish(w, loc[w].request, Response(200, "", "Successfully logged out"))
    /\ UNCHANGED <<users, nextId, issued, nextJti, expired, sent>>

\* user.py:144-146
UserLogout_post(w) ==
    /\ pc[w] = "logout_body"
    /\ BLOCKLIST' = BLOCKLIST_add(BLOCKLIST, loc[w].request.auth.tok.jti)
    /\ audit' = audit \cup {Entry("logout", loc[w].request.auth.tok.jti, 0, NoUser)}
    /\ Finish(w, loc[w].request, Response(200, "", "Successfully logged out"))
    /\ UNCHANGED <<users, nextId, issued, nextJti, expired, sent>>

\* --------------------------------------------------- POST /refresh
\* faulty variant: the decorator is written without refresh=True
TokenRefresh_post_verify_plain(w, auth) ==
    LET request == Request("refresh", auth, "", "", 0, Seen(auth, ""))
        r == jwt_required(auth, FALSE) IN
    /\ Accept(w)
    /\ IF r = NoResponse
       THEN Goto(w, "refresh_body", request, NoUser)
       ELSE Finish(w, request, r)
    /\ UNCHANGED <<users, nextId, BLOCKLIST, issued, nextJti, expired>>

\* user.py:224: @jwt_required(refresh=True)
TokenRefresh_post_verify(w, auth) ==
    LET request == Request("refresh", auth, "", "", 0, Seen(auth, ""))
        r == jwt_required(auth, TRUE) IN
    /\ Accept(w)
    /\ IF r = NoResponse
       THEN Goto(w, "refresh_body", request, NoUser)
       ELSE Finish(w, request, r)
    /\ UNCHANGED <<users, nextId, BLOCKLIST, issued, nextJti, expired>>

\* faulty variant: the new token is marked fresh
refresh_token_for_fresh(tok, jti) == create_access_token(tok.sub, TRUE, jti)

\* user.py:252-253: the new token is for get_jwt_identity() and is not fresh
refresh_token_for(tok, jti) == create_access_token(tok.sub, FALSE, jti)

\* user.py:252-257
TokenRefresh_post(w) ==
    LET new_token == refresh_token_for(loc[w].request.auth.tok, nextJti) IN
    /\ pc[w] = "refresh_body"
    /\ issued' = issued \cup {new_token}
    /\ nextJti' = nextJti + 1
    /\ BLOCKLIST' = BLOCKLIST_add(BLOCKLIST, loc[w].request.auth.tok.jti)
    /\ audit' = audit \cup {Entry("refresh", loc[w].request.auth.tok.jti, new_token.jti, NoUser)}
    /\ Finish(w, loc[w].request, [Response(200, "", "") EXCEPT !.access_token = new_token])
    /\ UNCHANGED <<users, nextId, expired, sent>>

\* --------------------------------------------------- /user/<int:user_id>
\* user.py:188-189
User_get(w, user_id) ==
    LET request == Request("get", NoHeader, "", "", user_id, Seen(NoHeader, ""))
        user == get_by_id(user_id) IN
    /\ Accept(w)
    /\ IF user = NoUser
       THEN Finish(w, request, Response(404, "", "Not Found"))
       ELSE Finish(w, request, [Response(200, "", "") EXCEPT !.user = UserSchema_dump(user)])
    /\ UNCHANGED <<users, nextId, BLOCKLIST, issued, nextJti, expired>>

\* user.py:216: get_or_404
User_delete_lookup(w, user_id) ==
    LET request == Request("delete", NoHeader, "", "", user_id, Seen(NoHeader, ""))
        user == get_by_id(user_id) IN
    /\ Accept(w)
    /\ IF user = NoUser
       THEN Finish(w, request, Response(404, "", "Not Found"))
       ELSE Goto(w, "delete_commit", request, user)
    /\ UNCHANGED <<users, nextId, BLOCKLIST, issued, nextJti, expired>>

\* faulty variant: deleting a user also revokes the tokens issued to that user
User_delete_revoking(w) ==
    /\ pc[w] = "delete_commit"
    /\ users' = {u \in users : u.id # loc[w].user.id}
    /\ BLOCKLIST' = BLOCKLIST \cup {t.jti : t \in {i \in issued : i.sub = loc[w].user.id}}
    /\ audit' = audit \cup {Entry("delete", 0, 0, loc[w].user)}
    /\ Finish(w, loc[w].request, Response(200, "", "User deleted."))
    /\ UNCHANGED <<nextId, issued, nextJti, expired, sent>>

\* faulty variant: the DELETE is never committed
User_delete_keep(w) ==
    /\ pc[w] = "delete_commit"
    /\ users' = users
    /\ audit' = audit \cup {Entry("delete", 0, 0, loc[w].user)}
    /\ Finish(w, loc[w].request, Response(200, "", "User deleted."))
    /\ UNCHANGED <<nextId, BLOCKLIST, issued, nextJti, expired, sent>>

\* user.py:217-219: DELETE by primary key; a row already gone matches nothing
User_delete(w) ==
    /\ pc[w] = "delete_commit"
    /\ users' = {u \in users : u.id # loc[w].user.id}
    /\ audit' = audit \cup {Entry("delete", 0, 0, loc[w].user)}
    /\ Finish(w, loc[w].request, Response(200, "", "User deleted."))
    /\ UNCHANGED <<nextId, BLOCKLIST, issued, nextJti, expired, sent>>

\* --------------------------------------------------- time
\* the exp claim of an issued token passes
Expire(t) ==
    /\ t.jti \notin expired
    /\ Cardinality(expired) < MaxExpired
    /\ expired' = expired \cup {t.jti}
    /\ UNCHANGED <<users, nextId, BLOCKLIST, issued, nextJti, sent, audit, pc, loc, last>>

\* ------------------------------------------------------------------ Next
Next ==
    \/ \E w \in Workers, u \in Usernames, p \in Passwords, s \in Salts :
          UserRegister_post_check(w, u, p, s)
    \/ \E w \in Workers : UserRegister_post_commit(w)
    \/ \E w \in Workers, u \in LoginNames, p \in Passwords : UserLogin_post(w, u, p)
    \/ \E w \in Workers, a \in Auths : UserLogout_post_verify(w, a)
    \/ \E w \in Workers : UserLogout_post(w)
    \/ \E w \in Workers, a \in Auths : TokenRefresh_post_verify(w, a)
    \/ \E w \in Workers : TokenRefresh_post(w)
    \/ \E w \in Workers, i \in UserIds : User_get(w, i)
    \/ \E w \in Workers, i \in UserIds : User_delete_lookup(w, i)
    \/ \E w \in Workers : User_delete(w)
    \/ \E t \in issued : Expire(t)

Spec == Init /\ [][Next]_vars

\* --------------------------------------------------- process restart
\* The process ends and app.py runs again (app.py:1-113).  The module blocklist
\* is imported anew, so BLOCKLIST is the empty set again; db.create_all()
\* (app.py:108-109) creates the tables that are absent and leaves the rows and
\* the id sequence of an existing table alone.  The threads of the old process
\* are gone with the requests they served.  The tokens clients hold stay
\* valid: JWT_SECRET_KEY is a constant (app.py:18).
\* faulty variant: the set of revoked jti outlives the process
Restart_persistent ==
    /\ BLOCKLIST' = BLOCKLIST
    /\ pc' = [w \in Workers |-> "idle"]
    /\ loc' = [w \in Workers |-> NoFrame]
    /\ UNCHANGED <<users, nextId, issued, nextJti, expired, sent, audit, last>>

Restart ==
    /\ BLOCKLIST' = {}
    /\ pc' = [w \in Workers |-> "idle"]
    /\ loc' = [w \in Workers |-> NoFrame]
    /\ UNCHANGED <<users, nextId, issued, nextJti, expired, sent, audit, last>>

\* one run of the service over several process lifetimes
NextRestart == Next \/ Restart

SpecRestart == Init /\ [][NextRestart]_vars

\* ------------------------------------------------------------ properties
\* The properties read `last`: the request answered most recently, what held when
\* it arrived (seen), and its response.  Every step that changes users,
\* BLOCKLIST or issued answers a request, so while `last` stands those three are
\* as that request left them.
Req == last.request
Res == last.response
Tok == last.request.auth.tok

InFlight == {w \in Workers : pc[w] # "idle"}

\* the answered request was sent to route with an issued token of this type that
\* had not expired when it arrived
Presented(route, type) ==
    /\ Req.route = route
    /\ Req.auth.kind = "bearer"
    /\ Tok.type = type
    /\ ~Req.seen.expired

\* the rows holding a username
Holding(username) == {u \in users : u.username = username}

\* -------- C1
\* the answered request presented an unexpired access token whose /logout had
\* already returned 200 when it arrived
C1_Replayed(route) == Presented(route, "access") /\ Req.seen.loggedOut

\* no request presenting a token already logged out reaches a handler body
C1_NeverServed == \A w \in InFlight : ~loc[w].request.seen.loggedOut

\* C1 as claimed: after /logout has returned 200 for an access token T, every later
\* request presenting T (unexpired) on /logout or /refresh is answered 401 with
\* error "token_revoked", never "invalid_token" and never 200.
C1_RevokedOnEveryRoute ==
    /\ C1_NeverServed
    /\ (C1_Replayed("logout") \/ C1_Replayed("refresh")) => Res = revoked_token_callback

\* C1 amended: after /logout has returned 200 for an access token T, every later
\* request presenting T (unexpired) is answered 401 and never 200: on /logout with
\* error "token_revoked", on /refresh with error "invalid_token", because the
\* token type is checked before the blocklist.
C1_RevokedOnLogout ==
    /\ C1_NeverServed
    /\ C1_Replayed("logout") => Res = revoked_token_callback
    /\ C1_Replayed("refresh") => Res = invalid_token_callback

\* a replay of a logged-out access token on /logout has been answered
C1_Witness == C1_Replayed("logout") /\ Res = revoked_token_callback /\ Tok.jti \in BLOCKLIST

\* -------- C2
\* C2: a refresh token is single-use: over all /refresh requests presenting one
\* refresh token, in any interleaving, at most one is answered 200, and every
\* other one (token unexpired) is answered "token_revoked".
C2_SingleUse ==
    /\ \A g, h \in audit :
         (g.route = "refresh" /\ h.route = "refresh" /\ g.jti = h.jti) => g = h
    /\ (Presented("refresh", "refresh") /\ Res.status # 200) => Res = revoked_token_callback

\* -------- C3
\* C3: /register answers 409 exactly when a row holds the username, and then
\* changes nothing; otherwise it answers 201 and adds one row.  So no username is
\* ever held by two rows, and after a /register for a username exactly one row
\* holds it.
C3_RegisterOnce ==
    /\ \A n \in Usernames : Cardinality(Holding(n)) <= 1
    /\ Req.route = "register" =>
         /\ Res.status \in {201, 409}
         /\ Req.seen.held => Res.status = 409
         /\ Cardinality(Holding(Req.username)) = 1

\* -------- C4
\* C4: when two /register requests for one username both pass the pre-check, the
\* one whose commit meets the uniqueness violation is answered 409, not 500, and
\* exactly one row holds the username.
C4_ConflictIs409 ==
    (Req.route = "register" /\ ~Req.seen.held /\ Res.status # 201) =>
        /\ Res.status = 409
        /\ Cardinality(Holding(Req.username)) = 1

\* -------- C5
\* the answered request presented a token of this type that was neither expired
\* nor in BLOCKLIST when it arrived
PresentedValid(route, type) == Presented(route, type) /\ ~Req.seen.revoked

Arrived ==
    IF pc' = pc THEN last'.request
    ELSE loc'[CHOOSE w \in Workers : pc'[w] # pc[w]].request

C7_Answered ==
    /\ \A w \in Workers : pc[w] = "refresh_body" => loc[w].request.auth.tok.type = "refresh"
    /\ PresentedValid("refresh", "access") =>
         /\ Res.status = 401
         /\ Res.access_token = NoToken
         /\ Tok.jti \notin BLOCKLIST

C7_Arrival ==
    (/\ sent' # sent
     /\ Arrived.route = "refresh"
     /\ Arrived.auth.kind = "bearer"
     /\ Arrived.auth.tok.type = "access") =>
        /\ pc' = pc
        /\ last'.response.status = 401
        /\ UNCHANGED <<BLOCKLIST, issued, nextJti>>

\* C7: /refresh with a valid, non-revoked access token (fresh or not) is answered
\* 401: the handler body does not run, no token is issued and BLOCKLIST is
\* unchanged, so the access token's jti is not added.
C7_RefreshRejectsAccess == []C7_Answered /\ [][C7_Arrival]_vars

\* a /refresh with a valid access token has been answered
C7_Witness == PresentedValid("refresh", "access") /\ Res.status = 401

\* -------- C8
\* the row the answered /login matched: its username, and a password that verifies
C8_Matches(u) ==
    /\ u.username = Req.username
    /\ pbkdf2_sha256_verify(Req.password, u.password)

\* C8: /login with the password of a persisted user is answered 200 with an access
\* token and a refresh token of distinct jti; the access token is fresh and both
\* carry that user's id.
C8_LoginTokens ==
    Req.route = "login" =>
        /\ (\E u \in users : C8_Matches(u)) => Res.status = 200
        /\ Res.status = 200 =>
             \E u \in users :
                /\ C8_Matches(u)
                /\ Res.access_token.type = "access"
                /\ Res.refresh_token.type = "refresh"
                /\ Res.access_token.jti # Res.refresh_token.jti
                /\ Res.access_token.fresh
                /\ Res.access_token.sub = u.id
                /\ Res.refresh_token.sub = u.id
                /\ {Res.access_token, Res.refresh_token} \subseteq issued
                /\ \A t \in issued : t.jti = Res.access_token.jti => t = Res.access_token
                /\ \A t \in issued : t.jti = Res.refresh_token.jti => t = Res.refresh_token

\* a /login has been answered 200
C8_Witness == Req.route = "login" /\ Res.status = 200 /\ Res.access_token.fresh

\* -------- C9
C9_SameAnswer ==
    (Req.route = "login" /\ ~(\E u \in users : C8_Matches(u))) =>
        /\ Res = Response(401, "", "Invalid credentials.")
        /\ Res.access_token = NoToken /\ Res.refresh_token = NoToken

C9_NoEffect ==
    (sent' # sent /\ last'.request.route = "login" /\ last'.response.status # 200) =>
        UNCHANGED <<users, nextId, BLOCKLIST, issued, nextJti>>

\* C9: a /login that fails is answered with one and the same response, 401
\* "Invalid credentials.", whether no row holds the username or the password does
\* not verify; it issues no token and changes neither users nor BLOCKLIST.
C9_NoEnumeration == []C9_SameAnswer /\ [][C9_NoEffect]_vars

\* a /login with a wrong password for a persisted user has been answered
C9_Witness ==
    /\ Req.route = "login" /\ Req.seen.held /\ Res.status = 401
    /\ \E u \in users : u.username = Req.username

\* -------- C10
\* C10: /logout requests with distinct valid tokens handled in parallel are all
\* answered 200, and every jti whose /logout was answered 200 is in BLOCKLIST
\* from then on.
C10_NoLostUpdate ==
    /\ LoggedOut \subseteq BLOCKLIST
    /\ \A w \in Workers : pc[w] = "logout_body" =>
         ~loc[w].request.seen.revoked /\ ~loc[w].request.seen.expired
    /\ PresentedValid("logout", "access") => Res.status = 200

\* two /logout requests with distinct tokens overlapped and both are answered
C10_Witness ==
    /\ InFlight = {}
    /\ Req.route = "logout" /\ Req.seen.overlap /\ Res.status = 200
    /\ Cardinality(LoggedOut) >= 2
    /\ LoggedOut \subseteq BLOCKLIST

\* -------- C11
\* the step takes in a request on a protected route
ArrivedProtected == sent' # sent /\ Arrived.route \in {"logout", "refresh"}

\* the request is answered at once with r: the handler body does not run, no
\* token is issued, BLOCKLIST and users stay as they are
C11_Rejected(r) ==
    /\ pc' = pc
    /\ last'.response = r
    /\ UNCHANGED <<BLOCKLIST, issued, nextJti, users, nextId>>

C11_Arrival ==
    /\ (ArrivedProtected /\ Arrived.auth.kind = "missing") =>
         C11_Rejected(Response(401, "authorization_required",
                               "Request does not contain an access token."))
    /\ (ArrivedProtected /\ Arrived.auth.kind = "malformed") =>
         C11_Rejected(Response(401, "invalid_token", "Signature verification failed."))
    /\ (ArrivedProtected /\ Arrived.auth.kind = "bearer" /\ Arrived.auth.tok.jti \in expired) =>
         C11_Rejected(Response(401, "token_expired", "The token has expired."))

\* no handler body runs for a request without a token or with an expired one
C11_NoBody ==
    \A w \in Workers : pc[w] \in {"logout_body", "refresh_body"} =>
        /\ loc[w].request.auth.kind = "bearer"
        /\ ~loc[w].request.seen.expired

\* C11: on /logout and /refresh a request with no Authorization header is answered
\* 401 "authorization_required", one with a malformed token 401 "invalid_token",
\* one with a well-formed expired token 401 "token_expired"; in all three cases
\* the handler body does not run, no token is issued and BLOCKLIST is unchanged.
C11_ProtectedRejects == []C11_NoBody /\ [][C11_Arrival]_vars

\* an expired token has been rejected on a protected route while BLOCKLIST holds
\* other tokens
C11_Witness ==
    /\ Req.route \in {"logout", "refresh"}
    /\ Req.auth.kind = "bearer" /\ Req.seen.expired
    /\ Res = expired_token_callback
    /\ BLOCKLIST # {} /\ Tok.jti \notin BLOCKLIST

\* -------- C12
\* the rows /register has written (201), and the ids DELETE /user has removed (200)
Created == {g.user : g \in {h \in audit : h.route = "register"}}
Deleted == {g.user.id : g \in {h \in audit : h.route = "delete"}}
Assigned == {c.id : c \in Created}

\* the step takes in a GET or DELETE /user/<id>
ArrivedUser == sent' # sent /\ Arrived.route \in {"get", "delete"}

C12_NotFound ==
    /\ pc' = pc
    /\ last'.response = Response(404, "", "Not Found")
    /\ UNCHANGED <<users, nextId, BLOCKLIST, issued, nextJti>>

C12_Arrival ==
    /\ (ArrivedUser /\ Arrived.user_id \notin Assigned) => C12_NotFound
    /\ (ArrivedUser /\ Arrived.user_id \in Deleted) => C12_NotFound

\* a deleted id is never the id of a row again
C12_Gone == \A u \in users : u.id \notin Deleted

\* C12: GET and DELETE /user/<id> for an id never assigned answer 404 and change
\* nothing; once DELETE has answered 200 for an id, every later GET and DELETE for
\* that id answers 404, whatever other requests are served in between.
C12_DeletedStays404 == []C12_Gone /\ [][C12_Arrival]_vars

\* a deleted id was asked for again after another user had been registered
C12_Witness ==
    /\ Req.route \in {"get", "delete"}
    /\ Req.user_id \in Deleted
    /\ Res.status = 404
    /\ users # {}

\* -------- C13
\* a GET /user/<id> answered 200 returns id and username of the row, nothing else
C13_Dump ==
    (Req.route = "get" /\ Res.status = 200) =>
        /\ DOMAIN Res.user = {"id", "username"}
        /\ \E c \in Created : /\ c.id = Req.user_id
                               /\ Res.user = [id |-> c.id, username |-> c.username]

\* C13: /register for a username no row holds on arrival is answered 201, and a
\* GET /user/<id> for the id the row was given is then answered 200 with exactly
\* the fields id and username (as registered) and no password.
C13_RegisterThenGet ==
    /\ (Req.route = "register" /\ ~Req.seen.held) =>
         /\ Res.status = 201
         /\ \E c \in Created : c.username = Req.username /\ c \in users
    /\ (Req.route = "get" /\ Req.user_id \in {u.id : u \in users}) => Res.status = 200
    /\ C13_Dump

\* -------- C14
\* value is the hash of plaintext under some salt
HashOf(value, plaintext) == \E s \in Salts : value = pbkdf2_sha256_hash(plaintext, s)

\* the plaintexts a stored password value is the hash of
Plaintexts(value) == {p \in Passwords : HashOf(value, p)}

\* C14: the password stored for a row is the hash of the plaintext supplied at
\* its registration and never the plaintext itself; /login for the username is
\* answered 200 exactly when the supplied password is that plaintext, and 401 for
\* any other, also for the password of a deleted row that held the username.
C14_HashRoundTrip ==
    /\ \A w \in Workers : pc[w] = "register_commit" =>
         /\ HashOf(loc[w].user.password, loc[w].request.password)
         /\ loc[w].user.password # loc[w].request.password
    /\ (Req.route = "register" /\ Res.status = 201) =>
         \E u \in users : /\ u.username = Req.username
                          /\ Plaintexts(u.password) = {Req.password}
                          /\ u.password # Req.password
    /\ \A c \in Created \cup users :
         /\ Cardinality(Plaintexts(c.password)) = 1
         /\ c.password \notin Passwords
         /\ \A q \in Passwords : pbkdf2_sha256_verify(q, c.password) <=> q \in Plaintexts(c.password)
    /\ Req.route = "login" =>
         (Res.status = 200 <=>
            \E u \in users : u.username = Req.username /\ Req.password \in Plaintexts(u.password))
    /\ Req.route = "login" => Res.status \in {200, 401}

\* the username was registered, deleted and registered again with another
\* password; /login with the first password has been refused
C14_Witness ==
    /\ Req.route = "login" /\ Res.status = 401
    /\ \E u \in users : u.username = Req.username /\ Req.password \notin Plaintexts(u.password)
    /\ \E c \in Created \ users :
          /\ c.username = Req.username
          /\ c.id \in Deleted
          /\ Req.password \in Plaintexts(c.password)

\* -------- C15
\* C15: ids are never reused: the rows /register has written carry pairwise
\* distinct ids, so a row written after a deletion never has the id of a deleted
\* row, and the identity of every issued token is the id of one row only.
C15_IdsNeverReused ==
    /\ \A c, d \in Created : c.id = d.id => c = d
    /\ \A c \in Created : c.id >= 1 /\ c.id < nextId
    /\ users \subseteq Created
    /\ \A c \in Created \ users : \A u \in users : u.id # c.id
    /\ \A t \in issued : Cardinality({c \in Created : c.id = t.sub}) = 1

\* a user was registered after the deletion of a user who holds tokens
C15_Witness ==
    /\ Req.route = "register" /\ Res.status = 201
    /\ \E t \in issued : /\ t.sub \in Deleted
                          /\ \A u \in users : u.id # t.sub
    /\ users # {}

\* -------- C16
\* the jti that a /logout or a /refresh answered 200 has revoked
Revoked == {g.jti : g \in {h \in audit : h.route \in {"logout", "refresh"}}}

\* the answered request presented a valid token of this type while another
\* token of the same identity was in BLOCKLIST
PresentedBesideRevoked(route, type) == PresentedValid(route, type) /\ Req.seen.sibling

\* C16: revocation is per token: BLOCKLIST holds exactly the jti that /logout and
\* /refresh were answered 200 for, and an unexpired token whose own jti is not in
\* BLOCKLIST is accepted whatever other tokens of the same user are in it; after
\* /logout with the access token of a login, /refresh with the refresh token of
\* that login is answered 200.
C16_PerToken ==
    /\ BLOCKLIST = Revoked
    /\ PresentedBesideRevoked("refresh", "refresh") =>
         /\ Res.status = 200
         /\ Res.access_token.sub = Tok.sub
    /\ PresentedBesideRevoked("logout", "access") => Res.status = 200

\* /refresh with the refresh token of a login was answered 200 after /logout
\* with the access token of the same login
C16_Witness ==
    /\ PresentedBesideRevoked("refresh", "refresh")
    /\ Res.status = 200
    /\ \E t \in issued : /\ t.type = "access" /\ t.fresh
                          /\ t.sub = Tok.sub
                          /\ t.jti + 1 = Tok.jti
                          /\ t.jti \in LoggedOut

\* -------- C17
\* thread w runs the body of /logout or /refresh in this step
BodyStep(w) == pc[w] \in {"logout_body", "refresh_body"} /\ pc'[w] = "idle"

C17_Step ==
    /\ BLOCKLIST \subseteq BLOCKLIST'
    /\ \A w \in Workers : BodyStep(w) =>
         IF loc[w].request.auth.tok.jti \in BLOCKLIST
         THEN BLOCKLIST' = BLOCKLIST
         ELSE BLOCKLIST' = BLOCKLIST \cup {loc[w].request.auth.tok.jti}

\* C17: within one process lifetime BLOCKLIST only grows: over every step the
\* set before is a subset of the set after, and adding a jti that is already
\* present leaves the set as it is.
C17_OnlyGrows == [][C17_Step]_vars

\* a jti was added twice: two /refresh with one token were both answered 200
C17_Witness ==
    /\ \E g, h \in audit : /\ g.route = "refresh" /\ h.route = "refresh"
                            /\ g.jti = h.jti /\ g.new # h.new
                            /\ g.jti \in BLOCKLIST
    /\ Cardinality(BLOCKLIST) >= 2

\* -------- C18
\* the request this step works on (none when time passes)
Served ==
    IF sent' # sent THEN Arrived
    ELSE IF pc' # pc THEN loc[CHOOSE w \in Workers : pc'[w] # pc[w]].request
    ELSE NoRequest

\* the step sends the response of the request it works on
Answers ==
    \/ sent' # sent /\ pc' = pc
    \/ \E w \in Workers : pc[w] # "idle" /\ pc'[w] = "idle"

C18_Step ==
    /\ users' # users => Served.route \in {"register", "delete"}
    /\ BLOCKLIST' # BLOCKLIST => Served.route \in {"logout", "refresh"}
    /\ Served.route \in {"register", "delete"} => BLOCKLIST' = BLOCKLIST
    /\ Served.route \in {"logout", "refresh"} => users' = users
    /\ Served.route \in {"login", "get"} => users' = users /\ BLOCKLIST' = BLOCKLIST
    /\ (Answers /\ last'.request = Served /\ last'.response.status \in {401, 404, 409}) =>
         users' = users /\ BLOCKLIST' = BLOCKLIST
    /\ Answers => last'.request = Served

\* C18: only /register and DELETE /user change users, and they leave BLOCKLIST
\* unchanged; only /logout and /refresh change BLOCKLIST, and they leave users
\* unchanged; /login and GET /user change neither; a request answered 401, 404 or
\* 409 changes neither.
C18_Frame == [][C18_Step]_vars

\* every kind of change has happened (a row written and deleted, a token
\* revoked), and then a request has been refused
C18_Witness ==
    /\ Res.status \in {401, 404, 409}
    /\ Created # {} /\ Deleted # {} /\ BLOCKLIST # {}

\* -------- C19
\* the answered request presented an unexpired access token on /logout that had
\* been logged out before and was not in BLOCKLIST when it arrived
C19_Forgotten == Presented("logout", "access") /\ Req.seen.loggedOut /\ ~Req.seen.revoked

C19_State ==
    /\ users = {c \in Created : c.id \notin Deleted}
    /\ BLOCKLIST \subseteq Revoked
    /\ C19_Forgotten => Res = Response(200, "", "Successfully logged out")

C19_Step ==
    /\ Restart => BLOCKLIST' = {} /\ users' = users /\ nextId' = nextId
    /\ ~(BLOCKLIST \subseteq BLOCKLIST') => BLOCKLIST' = {} /\ users' = users

\* C19: a process restart empties BLOCKLIST and leaves the rows of users as they
\* are, so an unexpired token that was revoked before the restart is not found
\* in BLOCKLIST afterwards and is accepted again.
C19_RestartForgets == []C19_State /\ [][C19_Step]_vars

\* a token logged out before a restart has been accepted again after it, and
\* the user registered before the restart is still there
C19_Witness ==
    /\ C19_Forgotten /\ Res.status = 200
    /\ \E u \in users : u.id = Tok.sub

\* -------- C20
\* the user the presented token was issued to has been deleted
Orphan == Tok.sub \in Deleted /\ \A u \in users : u.id # Tok.sub

\* C20: DELETE /user revokes nothing: a token issued to a user who has since been
\* deleted is still accepted while it is unexpired and not in BLOCKLIST: /logout
\* with such an access token is answered 200, and /refresh with such a refresh
\* token is answered 200 with a new access token whose identity is the id of
\* the deleted user.
C20_DeleteKeepsTokens ==
    /\ (Req.route = "delete" /\ Res.status = 200) =>
         \A t \in issued : (t.sub = Req.user_id /\ t.jti \in BLOCKLIST) => t.jti \in Revoked
    /\ (PresentedValid("logout", "access") /\ Orphan) =>
         /\ Res = Response(200, "", "Successfully logged out")
         /\ Tok.jti \in BLOCKLIST
    /\ (PresentedValid("refresh", "refresh") /\ Orphan) =>
         /\ Res.status = 200
         /\ Res.access_token \in issued
         /\ Res.access_token.type = "access"
         /\ Res.access_token.sub = Tok.sub
         /\ \A u \in users : u.id # Res.access_token.sub

\* /refresh with the refresh token of a deleted user has been answered 200
C20_Witness ==
    /\ PresentedValid("refresh", "refresh") /\ Orphan
    /\ Res.status = 200
    /\ Res.access_token.sub \in Deleted

====
